---- MODULE Spec2Model ----
(***************************************************************************)
(* The four workshop notebooks (Textract/Comprehend Medical, Autopilot,    *)
(* XGBoost/HPO, BERT) as one state machine.  A behaviour runs ONE notebook *)
(* top to bottom ("Run All": a cell that raises stops the run); the        *)
(* managed services are the environment: their jobs and endpoints change   *)
(* state between the notebook's requests.  The holes the notebooks leave   *)
(* for the student (<your bucket>, <S3_path>, ...) are filled in as the    *)
(* surrounding hints say.                                                  *)
(***************************************************************************)
EXTENDS Integers, Sequences, FiniteSets, TLC

\* ------------------------------------------------------------------ bounds
\* largest number of result pages the Textract service splits a result into
MaxResultPages == 2
\* largest number of pages of the parsed document (len(doc.pages))
MaxDocPages == 1
\* largest number of runs of equal-width characters in one page text
MaxRuns == 1
\* number of sleeps and status requests of a polling loop that are recorded
MaxLog == 4
\* largest number of rows of df_model_data (XGBoost notebook)
MaxRows == 100
\* largest number of rows of churn (Autopilot notebook)
MaxChurnRows == 3

\* ------------------------------------------------------- program constants
maxLength == 20000
fileName == "sample_report.pdf"
prefix == "sagemaker/medical_notes"
\* os.path.join(prefix, 'data', fileName)
S3_path == prefix \o "/" \o "data" \o "/" \o fileName

Notebooks == {"textract", "autopilot", "xgb", "bert"}

\* ------------------------------------------------------------ page texts
\* A text is a sequence of runs; a run is n characters that each take w
\* bytes in UTF-8.  len(text) counts characters, the service limit bytes.
Widths == {1, 2}
RunLens == {1, maxLength, maxLength + 1}
Runs == [n : RunLens, w : Widths]
Texts == UNION {[1..k -> Runs] : k \in 0..MaxRuns}

RECURSIVE len(_)
len(t) == IF t = <<>> THEN 0 ELSE Head(t).n + len(Tail(t))

RECURSIVE UTF8Len(_)
UTF8Len(t) == IF t = <<>> THEN 0 ELSE Head(t).n * Head(t).w + UTF8Len(Tail(t))

RECURSIVE Drop(_, _)
Drop(t, k) ==
    IF k = 0 \/ t = <<>> THEN t
    ELSE IF Head(t).n <= k THEN Drop(Tail(t), k - Head(t).n)
    ELSE <<[n |-> Head(t).n - k, w |-> Head(t).w]>> \o Tail(t)

RECURSIVE Take(_, _)
Take(t, k) ==
    IF k = 0 \/ t = <<>> THEN <<>>
    ELSE IF Head(t).n <= k THEN <<Head(t)>> \o Take(Tail(t), k - Head(t).n)
    ELSE <<[n |-> k, w |-> Head(t).w]>>

\* Python's t[a:b] for 0 <= a <= b: characters a .. b-1, clipped to the text
Slice(t, a, b) == Take(Drop(t, a), b - a)

\* the text range the chunk loop sends for offset i: pageText[i:i+maxLength]
ChunkOf(t, off) == Slice(t, off, off + maxLength)

\* ------------------------------------------------------- service statuses
TextractInProgress == "IN_PROGRESS"
TextractTerminal == {"SUCCEEDED", "FAILED", "PARTIAL_SUCCESS"}
SageMakerTerminal == {"Completed", "Failed", "Stopped"}
SageMakerStatuses == {"InProgress", "Stopping"} \cup SageMakerTerminal

Jobs == {"textract", "automl", "training", "tuning", "bert-training"}
Endpoints == {"automl-ep", "xgb-ep", "hpo-ep", "bert-ep-1", "bert-ep-2"}

\* Token values: EmptyToken is the empty string "", k >= 2 the token that
\* names result page k; NoneToken is Python's None (no NextToken argument).
EmptyToken == 0
NoneToken == -1
\* maximum document size of detect_entities_v2, in bytes
MaxDocumentBytes == 20000

VARIABLES
    nb,                 \* the notebook this run executes
    pc,                 \* the statement the kernel executes next
    err,                \* the exception that stopped the run, or "none"
    job,                \* service side: status of each job, "none" before submit
    ep,                 \* service side: status of each endpoint
    s3,                 \* service side: keys of the objects in the bucket
    sm,                 \* service side: names of SageMaker models and endpoint configs
    created,            \* every remote resource the run has created so far
    steps,              \* the pattern steps executed so far, <<kind, job>>
    status,             \* Textract notebook: status
    textractObjectName, \* Textract notebook: binding of that name
    pages,              \* Textract notebook: pages (<<>> until the fetch cell binds it)
    nextToken,          \* Textract notebook: nextToken (None until bound)
    requests,           \* NextToken argument of every result request sent
    received,           \* every result response the service returned
    docPages,           \* len(doc.pages) (0 until doc is bound)
    pageNo,             \* position of the for loop over doc.pages
    pageText,           \* pageText
    i,                  \* loop variable of range(0, len(pageText), maxLength)
    comprehendResponse, \* comprehendResponse
    df_cm,              \* df_cm: the responses its rows come from ({} until bound)
    job_run_status,     \* Autopilot notebook: job_run_status
    hpo_state,          \* XGBoost notebook: hpo_state
    log,                \* the first MaxLog sleeps and status requests of the polling loop
    outstanding,        \* the SDK calls the kernel has issued that have not returned
    calls,              \* Autopilot notebook: the create_* / delete_* calls made, in order
    xgbData,            \* XGBoost notebook: df_model_data and the three parts of its split
    churnData           \* Autopilot notebook: churn and the parts of its split

vars == <<nb, pc, err, job, ep, s3, sm, created, steps, status, textractObjectName,
          pages, nextToken, requests, received, docPages, pageNo, pageText, i,
          comprehendResponse, df_cm, job_run_status, hpo_state,
          log, outstanding, calls, xgbData, churnData>>

textractVars == <<status, textractObjectName, pages, nextToken, requests, received,
                  docPages, pageNo, pageText, i, comprehendResponse, df_cm>>
cmVars == <<docPages, pageNo, pageText, i, comprehendResponse, df_cm>>
fetchVars == <<pages, nextToken, requests, received>>
serviceVars == <<job, ep, s3, sm, created>>
dataVars == <<xgbData, churnData>>
histVars == <<log, outstanding, calls>>

Unbound == "unbound"
None == "None"

\* the data cells have not run: no frame is bound
NoSplit == [df_model_data |-> <<>>, shuffled |-> <<>>, train_data |-> <<>>,
            validation_data |-> <<>>, test_data |-> <<>>]
NoChurn == [churn |-> <<>>, columns |-> {}, train_data |-> {}, test_data |-> {},
            test_data_no_target |-> [rows |-> {}, columns |-> {}]]

FirstCell(n) ==
    CASE n = "textract" -> "t_import"
      [] n = "autopilot" -> "a_setup"
      [] n = "xgb" -> "x_setup"
      [] n = "bert" -> "b_setup"

\* a fresh kernel and nothing submitted to the services
FreshKernel ==
    /\ err = "none"
    /\ job = [j \in Jobs |-> "none"]
    /\ ep = [e \in Endpoints |-> "absent"]
    /\ s3 = {}
    /\ sm = {}
    /\ created = {}
    /\ steps = <<>>
    /\ status = Unbound
    /\ textractObjectName = Unbound
    /\ pages = <<>>
    /\ nextToken = NoneToken
    /\ requests = <<>>
    /\ received = <<>>
    /\ docPages = 0
    /\ pageNo = 0
    /\ pageText = <<>>
    /\ i = 0
    /\ comprehendResponse = <<>>
    /\ df_cm = {}
    /\ job_run_status = Unbound
    /\ hpo_state = Unbound
    /\ log = <<>>
    /\ outstanding = {}
    /\ calls = <<>>

Init ==
    /\ nb \in Notebooks
    /\ pc = FirstCell(nb)
    /\ FreshKernel
    /\ xgbData = NoSplit
    /\ churnData = NoChurn

\* ----------------------------------------------------------- common parts
\* the run is at statement p of notebook n
At(n, p) == nb = n /\ pc = p

\* an uncaught exception: the cell stops, and with it the run
Raise(e) == pc' = "aborted" /\ err' = e

Goto(p) == pc' = p /\ UNCHANGED err

\* record a step of the upload/submit/poll/... pattern (once per stretch)
Step(kind, j) ==
    steps' = IF steps # <<>> /\ steps[Len(steps)] = <<kind, j>>
             THEN steps ELSE Append(steps, <<kind, j>>)

\* the polling loop sleeps secs seconds / receives st to a status request
\* (or the SDK's error); the first MaxLog of these events are kept
Record(e) == log' = IF Len(log) < MaxLog THEN Append(log, e) ELSE log
Sleep(secs) == Record([kind |-> "sleep", secs |-> secs, status |-> ""])
Request(st) == Record([kind |-> "request", secs |-> 0, status |-> st])

\* ------------------------------------------------------------ environment
\* A submitted job finishes, fails or is stopped from outside the notebook.
JobProgress ==
    \E j \in Jobs :
        /\ \/ /\ j = "textract"
              /\ job[j] = TextractInProgress
              /\ \E s \in TextractTerminal : job' = [job EXCEPT ![j] = s]
           \/ /\ j # "textract"
              /\ job[j] = "InProgress"
              /\ \E s \in {"Completed", "Failed", "Stopping"} : job' = [job EXCEPT ![j] = s]
           \/ /\ j # "textract"
              /\ job[j] = "Stopping"
              /\ job' = [job EXCEPT ![j] = "Stopped"]
        /\ UNCHANGED <<nb, dataVars, histVars, pc, err, ep, s3, sm, created, steps, textractVars,
                       job_run_status, hpo_state>>

\* An endpoint under creation comes into service or fails.
EndpointProgress ==
    \E e \in Endpoints :
        /\ ep[e] = "Creating"
        /\ \E s \in {"InService", "Failed"} : ep' = [ep EXCEPT ![e] = s]
        /\ UNCHANGED <<nb, dataVars, histVars, pc, err, job, s3, sm, created, steps, textractVars,
                       job_run_status, hpo_state>>

\* ------------------------------------------------------ Textract notebook
\* what "from preprocess import *" may bind the clean-up cell's name to
ObjectKeys == {S3_path, fileName}

TImport ==
    /\ At("textract", "t_import")
    /\ textractObjectName' \in {Unbound} \cup ObjectKeys
    /\ Goto("t_upload")
    /\ UNCHANGED <<nb, dataVars, histVars, serviceVars, steps, status, fetchVars, cmVars,
                   job_run_status, hpo_state>>

TUpload ==
    /\ At("textract", "t_upload")
    /\ s3' = s3 \cup {S3_path}
    /\ created' = created \cup {<<"s3", S3_path>>}
    /\ Step("Upload", "textract")
    /\ Goto("t_start")
    /\ UNCHANGED <<nb, dataVars, histVars, job, ep, sm, textractVars, job_run_status, hpo_state>>

TStart ==
    /\ At("textract", "t_start")
    /\ job' = [job EXCEPT !["textract"] = TextractInProgress]
    /\ Step("Submit", "textract")
    /\ Goto("t_mon_sleep0")
    /\ UNCHANGED <<nb, dataVars, histVars, ep, s3, sm, created, textractVars, job_run_status, hpo_state>>

\* (mutant) the cell asks for the status at once, without the sleep ahead
TMonitorSleep0_skipped ==
    /\ At("textract", "t_mon_sleep0")
    /\ Step("Poll", "textract")
    /\ Goto("t_mon_get0")
    /\ UNCHANGED <<nb, dataVars, histVars, serviceVars, textractVars, job_run_status, hpo_state>>

\* time.sleep(5) ahead of the first status request
TMonitorSleep0 ==
    /\ At("textract", "t_mon_sleep0")
    /\ Sleep(5)
    /\ Step("Poll", "textract")
    /\ Goto("t_mon_get0")
    /\ UNCHANGED <<nb, dataVars, outstanding, calls, serviceVars, textractVars, job_run_status, hpo_state>>

\* (mutant) the request is wrapped in try/except and asked again on an error
TGetStatus_retry(from, to) ==
    /\ At("textract", from)
    /\ \/ status' = job["textract"] /\ Request(job["textract"]) /\ Goto(to)
       \/ Request("ClientError") /\ UNCHANGED <<status, pc, err>>
    /\ UNCHANGED <<nb, dataVars, outstanding, calls, serviceVars, steps, textractObjectName,
                   fetchVars, cmVars, job_run_status, hpo_state>>

\* response = textract.get_document_analysis(JobId=...); status = response["JobStatus"]
TGetStatus(from, to) ==
    /\ At("textract", from)
    /\ \/ status' = job["textract"] /\ Request(job["textract"]) /\ Goto(to)
       \/ Raise("ClientError") /\ Request("ClientError") /\ UNCHANGED status
    /\ UNCHANGED <<nb, dataVars, outstanding, calls, serviceVars, steps, textractObjectName, fetchVars, cmVars,
                   job_run_status, hpo_state>>

TMonitorGet0 == TGetStatus("t_mon_get0", "t_mon_test")

\* the loop condition: status == "IN_PROGRESS"
TextractLoopCondition(st) == st = "IN_PROGRESS"

\* while(status == "IN_PROGRESS"):
TMonitorTest ==
    /\ At("textract", "t_mon_test")
    /\ IF TextractLoopCondition(status) THEN Goto("t_mon_sleep") ELSE Goto("t_fetch_init")
    /\ UNCHANGED <<nb, dataVars, histVars, serviceVars, steps, textractVars, job_run_status, hpo_state>>

TMonitorSleep ==
    /\ At("textract", "t_mon_sleep")
    /\ Sleep(5)
    /\ Goto("t_mon_get")
    /\ UNCHANGED <<nb, dataVars, outstanding, calls, serviceVars, steps, textractVars, job_run_status, hpo_state>>

TMonitorGet == TGetStatus("t_mon_get", "t_mon_test")

\* pages = []; time.sleep(5)
TFetchInit ==
    /\ At("textract", "t_fetch_init")
    /\ pages' = <<>>
    /\ Step("Fetch", "textract")
    /\ Goto("t_fetch_get0")
    /\ UNCHANGED <<nb, dataVars, histVars, serviceVars, status, textractObjectName, nextToken, requests,
                   received, cmVars, job_run_status, hpo_state>>

\* The responses the service may give to a result request that carries
\* NextToken tok: result page k, with no NextToken key, an empty one, or the
\* token of page k+1.
ResultPage(tok) == IF tok = NoneToken THEN 1 ELSE tok
Responses(tok) ==
    LET k == ResultPage(tok)
    IN  {[idx |-> k, hasNextToken |-> FALSE, NextToken |-> NoneToken],
         [idx |-> k, hasNextToken |-> TRUE, NextToken |-> EmptyToken]}
        \cup (IF k < MaxResultPages
              THEN {[idx |-> k, hasNextToken |-> TRUE, NextToken |-> k + 1]}
              ELSE {})

\* nextToken = None; if('NextToken' in response): nextToken = response['NextToken']
TokenOf(response) ==
    IF response.hasNextToken THEN response.NextToken ELSE NoneToken

\* response = textract.get_document_analysis(JobId=..., [NextToken=tok]);
\* pages.append(response); nextToken = ...
TGetResults(from, tok) ==
    /\ At("textract", from)
    /\ requests' = Append(requests, tok)
    /\ \/ \E response \in Responses(tok) :
             /\ received' = Append(received, response)
             /\ pages' = Append(pages, response)
             /\ nextToken' = TokenOf(response)
             /\ Goto("t_fetch_test")
       \/ Raise("ClientError") /\ UNCHANGED <<received, pages, nextToken>>
    /\ UNCHANGED <<nb, dataVars, histVars, serviceVars, steps, status, textractObjectName, cmVars,
                   job_run_status, hpo_state>>

TFetchGet0 == TGetResults("t_fetch_get0", NoneToken)

\* (mutant) "while nextToken is not None": the empty token counts as a token
Truthy_isNotNone(tok) == tok # NoneToken

\* Python truth value of nextToken: None and "" are false
Truthy(tok) == tok # NoneToken /\ tok # EmptyToken

\* while(nextToken):
TFetchTest ==
    /\ At("textract", "t_fetch_test")
    /\ IF Truthy(nextToken) THEN Goto("t_fetch_sleep") ELSE Goto("t_doc")
    /\ UNCHANGED <<nb, dataVars, histVars, serviceVars, steps, textractVars, job_run_status, hpo_state>>

TFetchSleep ==
    /\ At("textract", "t_fetch_sleep")
    /\ Goto("t_fetch_get")
    /\ UNCHANGED <<nb, dataVars, histVars, serviceVars, steps, textractVars, job_run_status, hpo_state>>

TFetchGet == TGetResults("t_fetch_get", nextToken)

\* doc = trp.Document(pages): a failed job has no blocks, so no pages
TDoc ==
    /\ At("textract", "t_doc")
    /\ docPages' \in (IF job["textract"] = "FAILED" THEN {0} ELSE 0..MaxDocPages)
    /\ Step("Transform", "textract")
    /\ Goto("t_cm_init")
    /\ UNCHANGED <<nb, dataVars, histVars, serviceVars, status, textractObjectName, fetchVars, pageNo,
                   pageText, i, comprehendResponse, df_cm, job_run_status, hpo_state>>

\* maxLength=20000; comprehendResponse = []
TCmInit ==
    /\ At("textract", "t_cm_init")
    /\ comprehendResponse' = <<>>
    /\ Step("Consume", "textract")
    /\ Goto("t_cm_for")
    /\ UNCHANGED <<nb, dataVars, histVars, serviceVars, status, textractObjectName, fetchVars, docPages,
                   pageNo, pageText, i, df_cm, job_run_status, hpo_state>>

\* for page in doc.pages: pageText = page.text, and the inner range starts
\* at 0; reached from the cell's start and, after patient_string = "", from
\* the end of the inner range.  After the last page the review cell is next.
TCmNextPage ==
    /\ nb = "textract"
    /\ pc = "t_cm_for" \/ (pc = "t_cm_range" /\ ~(i < len(pageText)))
    /\ IF pageNo < docPages
       THEN /\ pageNo' = pageNo + 1
            /\ pageText' \in Texts
            /\ i' = 0
            /\ Goto("t_cm_range")
       ELSE Goto("t_review") /\ UNCHANGED <<pageNo, pageText, i>>
    /\ UNCHANGED <<nb, dataVars, histVars, serviceVars, steps, status, textractObjectName, fetchVars,
                   docPages, comprehendResponse, df_cm, job_run_status, hpo_state>>

\* the service takes documents of at most MaxDocumentBytes bytes
Accepts(text) == UTF8Len(text) <= MaxDocumentBytes

\* for i in range(0, len(pageText), maxLength):
\*     response = detect_entities_v2(Text=pageText[i:i+maxLength])
\*     comprehendResponse.append(response)
TCmDetect ==
    /\ At("textract", "t_cm_range")
    /\ i < len(pageText)
    /\ IF Accepts(ChunkOf(pageText, i))
       THEN /\ comprehendResponse' = Append(comprehendResponse, [page |-> pageNo, off |-> i])
            /\ i' = i + maxLength
            /\ Goto("t_cm_range")
       ELSE Raise("TextSizeLimitExceededException") /\ UNCHANGED <<i, comprehendResponse>>
    /\ UNCHANGED <<nb, dataVars, histVars, serviceVars, steps, status, textractObjectName, fetchVars,
                   docPages, pageNo, pageText, df_cm, job_run_status, hpo_state>>

\* the rows extractMC_v2 makes of one response: its medical conditions
extractMC_v2(response) == {response}

\* df_cm=extractMC_v2(comprehendResponse[0])
TReview ==
    /\ At("textract", "t_review")
    /\ IF comprehendResponse = <<>>
       THEN Raise("IndexError") /\ UNCHANGED df_cm
       ELSE df_cm' = extractMC_v2(comprehendResponse[1]) /\ Goto("t_cleanup")
    /\ UNCHANGED <<nb, dataVars, histVars, serviceVars, steps, status, textractObjectName, fetchVars,
                   docPages, pageNo, pageText, i, comprehendResponse,
                   job_run_status, hpo_state>>

\* boto3.Session().resource('s3').Bucket(bucket).Object(textractObjectName).delete()
TCleanup ==
    /\ At("textract", "t_cleanup")
    /\ IF textractObjectName = Unbound
       THEN Raise("NameError") /\ UNCHANGED <<s3, steps>>
       ELSE /\ s3' = s3 \ {textractObjectName}
            /\ Step("Teardown", "textract")
            /\ Goto("done")
    /\ UNCHANGED <<nb, dataVars, histVars, job, ep, sm, created, textractVars, job_run_status, hpo_state>>

TextractNext ==
    \/ TImport \/ TUpload \/ TStart
    \/ TMonitorSleep0 \/ TMonitorGet0 \/ TMonitorTest \/ TMonitorSleep \/ TMonitorGet
    \/ TFetchInit \/ TFetchGet0 \/ TFetchTest \/ TFetchSleep \/ TFetchGet
    \/ TDoc \/ TCmInit \/ TCmNextPage \/ TCmDetect \/ TReview \/ TCleanup

\* ----------------------------------------- SageMaker calls, all notebooks
\* a blocking SDK call returns when the job has left InProgress / Stopping
\* (estimator.fit), and raises unless the job completed
WaitForJob(j, to) ==
    /\ job[j] \in SageMakerTerminal
    /\ IF job[j] = "Completed" THEN Goto(to) ELSE Raise("UnexpectedStatusException")

\* create_endpoint / deploy: the endpoint starts to be created
CreateEndpoint(e) ==
    /\ ep' = [ep EXCEPT ![e] = "Creating"]
    /\ created' = created \cup {<<"endpoint", e>>}

\* the endpoint_in_service waiter, and the wait inside a blocking deploy
WaitForEndpoint(e, to) ==
    /\ ep[e] # "Creating"
    /\ IF ep[e] = "InService" THEN Goto(to) ELSE Raise("WaiterError")

\* predictor.predict(...) against endpoint e
Predict(e, to) == IF ep[e] = "InService" THEN Goto(to) ELSE Raise("ClientError")

Upload(keys) ==
    /\ s3' = s3 \cup keys
    /\ created' = created \cup {<<"s3", k>> : k \in keys}

\* ----------------------------------------------------- Autopilot notebook
\* best_candidate_name + timestamp_suffix + "-model" / "-epc" / "-ep"
model_name == "automl-model"
epc_name == "automl-epc"
ep_name == "automl-ep"

\* the notebook calls sm.<op> with the resource name given
Call(op, name) == calls' = Append(calls, <<op, name>>)

ASetup ==
    /\ At("autopilot", "a_setup")
    /\ Goto("a_upload")
    /\ UNCHANGED <<nb, dataVars, histVars, serviceVars, steps, textractVars, job_run_status, hpo_state>>

\* session.upload_data(train_file, ...); session.upload_data(test_file, ...)
AUpload ==
    /\ At("autopilot", "a_upload")
    /\ Upload({"sagemaker/DEMO-autopilot-churn/train/train_data.csv",
               "sagemaker/DEMO-autopilot-churn/test/test_data.csv"})
    /\ Step("Upload", "automl")
    /\ Goto("a_create_job")
    /\ UNCHANGED <<nb, dataVars, histVars, job, ep, sm, textractVars, job_run_status, hpo_state>>

\* sm.create_auto_ml_job(...)
ACreateJob ==
    /\ At("autopilot", "a_create_job")
    /\ job' = [job EXCEPT !["automl"] = "InProgress"]
    /\ Step("Submit", "automl")
    /\ Goto("a_describe0")
    /\ UNCHANGED <<nb, dataVars, histVars, ep, s3, sm, created, textractVars, job_run_status, hpo_state>>

\* describe_response = sm.describe_auto_ml_job(...);
\* job_run_status = describe_response['AutoMLJobStatus']
ADescribeJob(from, to) ==
    /\ At("autopilot", from)
    /\ Step("Poll", "automl")
    /\ \/ job_run_status' = job["automl"] /\ Request(job["automl"]) /\ Goto(to)
       \/ Raise("ClientError") /\ Request("ClientError") /\ UNCHANGED job_run_status
    /\ UNCHANGED <<nb, dataVars, outstanding, calls, serviceVars, textractVars, hpo_state>>

ADescribe0 == ADescribeJob("a_describe0", "a_test")

\* (mutant) the loop waits for Completed and for nothing else
AutopilotLoopCondition_untilCompleted(st) == st # "Completed"

\* the loop condition: job_run_status not in ('Failed', 'Completed', 'Stopped')
AutopilotLoopCondition(st) == st \notin {"Failed", "Completed", "Stopped"}

\* while job_run_status not in ('Failed', 'Completed', 'Stopped'):
ATest ==
    /\ At("autopilot", "a_test")
    /\ IF AutopilotLoopCondition(job_run_status)
       THEN Goto("a_describe") ELSE Goto("a_best")
    /\ UNCHANGED <<nb, dataVars, histVars, serviceVars, steps, textractVars, job_run_status, hpo_state>>

ADescribe == ADescribeJob("a_describe", "a_sleep")

\* (mutant) the loop body ends without its sleep
ASleep_skipped ==
    /\ At("autopilot", "a_sleep")
    /\ Goto("a_test")
    /\ UNCHANGED <<nb, dataVars, histVars, serviceVars, steps, textractVars, job_run_status,
                   hpo_state>>

\* sleep(30)
ASleep ==
    /\ At("autopilot", "a_sleep")
    /\ Sleep(30)
    /\ Goto("a_test")
    /\ UNCHANGED <<nb, dataVars, outstanding, calls, serviceVars, steps, textractVars, job_run_status, hpo_state>>

\* best_candidate = sm.describe_auto_ml_job(...)['BestCandidate']: a completed
\* job has one, a failed job has none, a stopped job may have one
ABest ==
    /\ At("autopilot", "a_best")
    /\ Step("Fetch", "automl")
    /\ \/ job["automl"] # "Failed" /\ Goto("a_create_model")
       \/ job["automl"] # "Completed" /\ Raise("KeyError")
    /\ UNCHANGED <<nb, dataVars, histVars, serviceVars, textractVars, job_run_status, hpo_state>>

\* sm.create_model(..., ModelName=model_name, ...)
ACreateModel ==
    /\ At("autopilot", "a_create_model")
    /\ Call("create_model", model_name)
    /\ sm' = sm \cup {<<"model", model_name>>}
    /\ created' = created \cup {<<"model", model_name>>}
    /\ Step("Consume", "automl")
    /\ Goto("a_create_epc")
    /\ UNCHANGED <<nb, dataVars, log, outstanding, job, ep, s3, textractVars, job_run_status, hpo_state>>

\* sm.create_endpoint_config(EndpointConfigName = epc_name, ...)
ACreateEndpointConfig ==
    /\ At("autopilot", "a_create_epc")
    /\ Call("create_endpoint_config", epc_name)
    /\ sm' = sm \cup {<<"epc", epc_name>>}
    /\ created' = created \cup {<<"epc", epc_name>>}
    /\ Goto("a_create_ep")
    /\ UNCHANGED <<nb, dataVars, log, outstanding, job, ep, s3, steps, textractVars, job_run_status, hpo_state>>

\* sm.create_endpoint(EndpointName=ep_name, EndpointConfigName=epc_name)
ACreateEndpoint ==
    /\ At("autopilot", "a_create_ep")
    /\ Call("create_endpoint", ep_name)
    /\ CreateEndpoint(ep_name)
    /\ Goto("a_wait")
    /\ UNCHANGED <<nb, dataVars, log, outstanding, job, s3, sm, steps, textractVars, job_run_status, hpo_state>>

\* sm.get_waiter('endpoint_in_service').wait(EndpointName=ep_name)
AWait ==
    /\ At("autopilot", "a_wait")
    /\ WaitForEndpoint("automl-ep", "a_predict")
    /\ UNCHANGED <<nb, dataVars, histVars, serviceVars, steps, textractVars, job_run_status, hpo_state>>

\* predictor = Predictor(endpoint_name=ep_name, ...); predictor.predict(...)
APredict ==
    /\ At("autopilot", "a_predict")
    /\ Step("Consume", "automl")
    /\ Predict("automl-ep", "a_cleanup_s3")
    /\ UNCHANGED <<nb, dataVars, histVars, serviceVars, textractVars, job_run_status, hpo_state>>

\* the cell that deletes the job's S3 outputs: every line is a comment
ACleanupS3 ==
    /\ At("autopilot", "a_cleanup_s3")
    /\ Goto("a_delete_ep")
    /\ UNCHANGED <<nb, dataVars, histVars, serviceVars, steps, textractVars, job_run_status, hpo_state>>

\* (mutant) the delete_endpoint line is a comment, as in the XGBoost notebook
ADeleteEndpoint_commented ==
    /\ At("autopilot", "a_delete_ep")
    /\ Goto("a_delete_epc")
    /\ UNCHANGED <<nb, dataVars, histVars, serviceVars, steps, textractVars, job_run_status, hpo_state>>

\* sm.delete_endpoint(EndpointName=ep_name)
ADeleteEndpoint ==
    /\ At("autopilot", "a_delete_ep")
    /\ Call("delete_endpoint", ep_name)
    /\ ep' = [ep EXCEPT ![ep_name] = "absent"]
    /\ Step("Teardown", "automl")
    /\ Goto("a_delete_epc")
    /\ UNCHANGED <<nb, dataVars, log, outstanding, job, s3, sm, created, textractVars, job_run_status, hpo_state>>

\* (mutant) the configuration is deleted under the model's name
ADeleteEndpointConfig_byModelName ==
    /\ At("autopilot", "a_delete_epc")
    /\ Call("delete_endpoint_config", model_name)
    /\ sm' = sm \ {<<"epc", model_name>>}
    /\ Step("Teardown", "automl")
    /\ Goto("a_delete_model")
    /\ UNCHANGED <<nb, dataVars, log, outstanding, job, ep, s3, created, textractVars, job_run_status, hpo_state>>

\* sm.delete_endpoint_config(EndpointConfigName=epc_name)
ADeleteEndpointConfig ==
    /\ At("autopilot", "a_delete_epc")
    /\ Call("delete_endpoint_config", epc_name)
    /\ sm' = sm \ {<<"epc", epc_name>>}
    /\ Step("Teardown", "automl")
    /\ Goto("a_delete_model")
    /\ UNCHANGED <<nb, dataVars, log, outstanding, job, ep, s3, created, textractVars, job_run_status, hpo_state>>

\* (mutant) the Evaluate cell stands after the clean-up cells
ADeleteModel_thenEvaluate ==
    /\ At("autopilot", "a_delete_model")
    /\ Call("delete_model", model_name)
    /\ sm' = sm \ {<<"model", model_name>>}
    /\ Step("Teardown", "automl")
    /\ Goto("a_predict")
    /\ UNCHANGED <<nb, dataVars, log, outstanding, job, ep, s3, created, textractVars, job_run_status, hpo_state>>

\* sm.delete_model(ModelName=model_name)
ADeleteModel ==
    /\ At("autopilot", "a_delete_model")
    /\ Call("delete_model", model_name)
    /\ sm' = sm \ {<<"model", model_name>>}
    /\ Step("Teardown", "automl")
    /\ Goto("done")
    /\ UNCHANGED <<nb, dataVars, log, outstanding, job, ep, s3, created, textractVars, job_run_status, hpo_state>>

AutopilotNext ==
    \/ ASetup \/ AUpload \/ ACreateJob \/ ADescribe0 \/ ATest \/ ADescribe \/ ASleep
    \/ ABest \/ ACreateModel \/ ACreateEndpointConfig \/ ACreateEndpoint \/ AWait
    \/ APredict \/ ACleanupS3 \/ ADeleteEndpoint \/ ADeleteEndpointConfig \/ ADeleteModel

\* --------------------------------------------------- XGBoost/HPO notebook
XSetup ==
    /\ At("xgb", "x_setup")
    /\ Goto("x_upload_raw")
    /\ UNCHANGED <<nb, dataVars, histVars, serviceVars, steps, textractVars, job_run_status, hpo_state>>

\* raw_uri = sgmk_session.upload_data(path="./data/raw.csv", ...)
XUploadRaw ==
    /\ At("xgb", "x_upload_raw")
    /\ Upload({"xgboost-example/raw.csv"})
    /\ Step("Upload", "data")
    /\ Goto("x_upload")
    /\ UNCHANGED <<nb, dataVars, histVars, job, ep, sm, textractVars, job_run_status, hpo_state>>

\* train_uri = sgmk_session.upload_data(...); val_uri = sgmk_session.upload_data(...)
XUpload ==
    /\ At("xgb", "x_upload")
    /\ Upload({"xgboost-example/train.csv", "xgboost-example/validation.csv"})
    /\ Step("Upload", "data")
    /\ Goto("x_fit")
    /\ UNCHANGED <<nb, dataVars, histVars, job, ep, sm, textractVars, job_run_status, hpo_state>>

\* estimator.fit({...}): starts the training job ...
XFit ==
    /\ At("xgb", "x_fit")
    /\ outstanding' = outstanding \cup {"estimator.fit"}
    /\ job' = [job EXCEPT !["training"] = "InProgress"]
    /\ Step("Submit", "training")
    /\ Goto("x_fit_wait")
    /\ UNCHANGED <<nb, dataVars, log, calls, ep, s3, sm, created, textractVars, job_run_status, hpo_state>>

\* ... and blocks until it has ended
XFitWait ==
    /\ At("xgb", "x_fit_wait")
    /\ outstanding' = outstanding \ {"estimator.fit"}
    /\ WaitForJob("training", "x_deploy")
    /\ Step("Poll", "training")
    /\ UNCHANGED <<nb, dataVars, log, calls, serviceVars, textractVars, job_run_status, hpo_state>>

\* (mutant) the deploy call is handed to a background thread and the next
\* cell runs while it is outstanding
XDeploy_inBackground ==
    /\ At("xgb", "x_deploy")
    /\ outstanding' = outstanding \cup {"estimator.deploy"}
    /\ CreateEndpoint("xgb-ep")
    /\ Step("Consume", "training")
    /\ Goto("x_predict")
    /\ UNCHANGED <<nb, dataVars, log, calls, job, s3, sm, textractVars, job_run_status, hpo_state>>

\* predictor = estimator.deploy(...): wait=False stays a comment, so the
\* call creates the endpoint ...
XDeploy ==
    /\ At("xgb", "x_deploy")
    /\ outstanding' = outstanding \cup {"estimator.deploy"}
    /\ CreateEndpoint("xgb-ep")
    /\ Step("Consume", "training")
    /\ Goto("x_deploy_wait")
    /\ UNCHANGED <<nb, dataVars, log, calls, job, s3, sm, textractVars, job_run_status, hpo_state>>

\* (mutant) wait=False is un-commented: the call returns at once
XDeployWait_waitFalse ==
    /\ At("xgb", "x_deploy_wait")
    /\ outstanding' = outstanding \ {"estimator.deploy"}
    /\ Goto("x_predict")
    /\ UNCHANGED <<nb, dataVars, log, calls, serviceVars, steps, textractVars, job_run_status,
                   hpo_state>>

\* ... and blocks until it is in service
XDeployWait ==
    /\ At("xgb", "x_deploy_wait")
    /\ outstanding' = outstanding \ {"estimator.deploy"}
    /\ WaitForEndpoint("xgb-ep", "x_predict")
    /\ UNCHANGED <<nb, dataVars, log, calls, serviceVars, steps, textractVars, job_run_status, hpo_state>>

\* predictions = np.array(predictor.predict(X_test_numpy), ...)
XPredict ==
    /\ At("xgb", "x_predict")
    /\ Step("Consume", "training")
    /\ Predict("xgb-ep", "x_tuner_fit")
    /\ UNCHANGED <<nb, dataVars, histVars, serviceVars, textractVars, job_run_status, hpo_state>>

\* tuner.fit({...}): starts the tuning job
XTunerFit ==
    /\ At("xgb", "x_tuner_fit")
    /\ job' = [job EXCEPT !["tuning"] = "InProgress"]
    /\ Step("Submit", "tuning")
    /\ Goto("x_poll_init")
    /\ UNCHANGED <<nb, dataVars, histVars, ep, s3, sm, created, textractVars, job_run_status, hpo_state>>

\* hpo_state = None
XPollInit ==
    /\ At("xgb", "x_poll_init")
    /\ hpo_state' = None
    /\ Goto("x_poll_test")
    /\ UNCHANGED <<nb, dataVars, histVars, serviceVars, steps, textractVars, job_run_status>>

\* (mutant) the loop waits for Completed and for nothing else
HpoLoopCondition_untilCompleted(state) == state = None \/ state # "Completed"

\* the loop condition: hpo_state is None or hpo_state == "InProgress"
HpoLoopCondition(state) == state = None \/ state = "InProgress"

\* while hpo_state is None or hpo_state == "InProgress":
XPollTest ==
    /\ At("xgb", "x_poll_test")
    /\ IF HpoLoopCondition(hpo_state) THEN Goto("x_poll_body") ELSE Goto("x_hpo_deploy")
    /\ UNCHANGED <<nb, dataVars, histVars, serviceVars, steps, textractVars, job_run_status, hpo_state>>

\* if hpo_state is not None: print("-", end=""); time.sleep(60)
XPollSleep ==
    /\ At("xgb", "x_poll_body")
    /\ hpo_state # None
    /\ Sleep(60)
    /\ Goto("x_poll_describe")
    /\ UNCHANGED <<nb, dataVars, outstanding, calls, serviceVars, steps, textractVars, job_run_status, hpo_state>>

\* (mutant) the sleep is not guarded: the first pass sleeps too
XPollNoSleep_sleeps ==
    /\ At("xgb", "x_poll_body")
    /\ hpo_state = None
    /\ Sleep(60)
    /\ Goto("x_poll_describe")
    /\ UNCHANGED <<nb, dataVars, outstanding, calls, serviceVars, steps, textractVars,
                   job_run_status, hpo_state>>

\* the first pass skips the sleep
XPollNoSleep ==
    /\ At("xgb", "x_poll_body")
    /\ hpo_state = None
    /\ Goto("x_poll_describe")
    /\ UNCHANGED <<nb, dataVars, histVars, serviceVars, steps, textractVars, job_run_status, hpo_state>>

\* hpo_state = sgmk_client.describe_hyper_parameter_tuning_job(...)
\*     ["HyperParameterTuningJobStatus"]
XPollDescribe ==
    /\ At("xgb", "x_poll_describe")
    /\ Step("Poll", "tuning")
    /\ \/ hpo_state' = job["tuning"] /\ Request(job["tuning"]) /\ Goto("x_poll_test")
       \/ Raise("ClientError") /\ Request("ClientError") /\ UNCHANGED hpo_state
    /\ UNCHANGED <<nb, dataVars, outstanding, calls, serviceVars, textractVars, job_run_status>>

\* hpo_predictor = tuner.deploy(...): deploys the best training job of the
\* tuning job; a job that did not complete may have none
XHpoDeploy ==
    /\ At("xgb", "x_hpo_deploy")
    /\ Step("Consume", "tuning")
    /\ \/ /\ CreateEndpoint("hpo-ep")
          /\ outstanding' = outstanding \cup {"tuner.deploy"}
          /\ Goto("x_hpo_deploy_wait")
       \/ /\ job["tuning"] # "Completed"
          /\ Raise("Exception")
          /\ UNCHANGED <<ep, created, outstanding>>
    /\ UNCHANGED <<nb, dataVars, log, calls, job, s3, sm, textractVars, job_run_status, hpo_state>>

XHpoDeployWait ==
    /\ At("xgb", "x_hpo_deploy_wait")
    /\ outstanding' = outstanding \ {"tuner.deploy"}
    /\ WaitForEndpoint("hpo-ep", "x_hpo_predict")
    /\ UNCHANGED <<nb, dataVars, log, calls, serviceVars, steps, textractVars, job_run_status, hpo_state>>

\* hpo_predictions = np.array(hpo_predictor.predict(X_test_numpy), ...)
XHpoPredict ==
    /\ At("xgb", "x_hpo_predict")
    /\ Step("Consume", "tuning")
    /\ Predict("hpo-ep", "x_release")
    /\ UNCHANGED <<nb, dataVars, histVars, serviceVars, textractVars, job_run_status, hpo_state>>

\* "Releasing Cloud Resources": both delete_endpoint lines are comments
XRelease ==
    /\ At("xgb", "x_release")
    /\ Goto("done")
    /\ UNCHANGED <<nb, dataVars, histVars, serviceVars, steps, textractVars, job_run_status, hpo_state>>

XgbNext ==
    \/ XSetup \/ XUploadRaw \/ XUpload \/ XFit \/ XFitWait \/ XDeploy \/ XDeployWait
    \/ XPredict \/ XTunerFit \/ XPollInit \/ XPollTest \/ XPollSleep \/ XPollNoSleep
    \/ XPollDescribe \/ XHpoDeploy \/ XHpoDeployWait \/ XHpoPredict \/ XRelease

\* ---------------------------------------------------------- BERT notebook
BSetup ==
    /\ At("bert", "b_setup")
    /\ Goto("b_upload")
    /\ UNCHANGED <<nb, dataVars, histVars, serviceVars, steps, textractVars, job_run_status, hpo_state>>

\* inputs_train = sagemaker_session.upload_data(...); inputs_test = ...
BUpload ==
    /\ At("bert", "b_upload")
    /\ Upload({"sagemaker/DEMO-pytorch-bert/train.csv", "sagemaker/DEMO-pytorch-bert/test.csv"})
    /\ Step("Upload", "bert-training")
    /\ Goto("b_fit")
    /\ UNCHANGED <<nb, dataVars, histVars, job, ep, sm, textractVars, job_run_status, hpo_state>>

\* estimator.fit(inputs)
BFit ==
    /\ At("bert", "b_fit")
    /\ outstanding' = outstanding \cup {"estimator.fit"}
    /\ job' = [job EXCEPT !["bert-training"] = "InProgress"]
    /\ Step("Submit", "bert-training")
    /\ Goto("b_fit_wait")
    /\ UNCHANGED <<nb, dataVars, log, calls, ep, s3, sm, created, textractVars, job_run_status, hpo_state>>

BFitWait ==
    /\ At("bert", "b_fit_wait")
    /\ outstanding' = outstanding \ {"estimator.fit"}
    /\ WaitForJob("bert-training", "b_deploy1")
    /\ Step("Poll", "bert-training")
    /\ UNCHANGED <<nb, dataVars, log, calls, serviceVars, textractVars, job_run_status, hpo_state>>

\* predictor = estimator.deploy(...) / predictor = pytorch_model.deploy(...)
BDeploy(from, e, to) ==
    /\ At("bert", from)
    /\ outstanding' = outstanding \cup {"deploy"}
    /\ CreateEndpoint(e)
    /\ Step("Consume", "bert-training")
    /\ Goto(to)
    /\ UNCHANGED <<nb, dataVars, log, calls, job, s3, sm, textractVars, job_run_status, hpo_state>>

BDeployWait(from, e, to) ==
    /\ At("bert", from)
    /\ outstanding' = outstanding \ {"deploy"}
    /\ WaitForEndpoint(e, to)
    /\ UNCHANGED <<nb, dataVars, log, calls, serviceVars, steps, textractVars, job_run_status, hpo_state>>

\* result = predictor.predict(...)
BPredict(from, e, to) ==
    /\ At("bert", from)
    /\ Step("Consume", "bert-training")
    /\ Predict(e, to)
    /\ UNCHANGED <<nb, dataVars, histVars, serviceVars, textractVars, job_run_status, hpo_state>>

\* (mutant) the cell that deletes the endpoint is left out
BDeleteEndpoint_skipped(from, e, to) ==
    /\ At("bert", from)
    /\ Goto(to)
    /\ UNCHANGED <<nb, dataVars, histVars, serviceVars, steps, textractVars, job_run_status,
                   hpo_state>>

\* predictor.delete_endpoint()
BDeleteEndpoint(from, e, to) ==
    /\ At("bert", from)
    /\ ep' = [ep EXCEPT ![e] = "absent"]
    /\ Step("Teardown", "bert-training")
    /\ Goto(to)
    /\ UNCHANGED <<nb, dataVars, histVars, job, s3, sm, created, textractVars, job_run_status, hpo_state>>

BDeploy1 == BDeploy("b_deploy1", "bert-ep-1", "b_deploy1_wait")
BDeployWait1 == BDeployWait("b_deploy1_wait", "bert-ep-1", "b_predict1")
BPredict1 == BPredict("b_predict1", "bert-ep-1", "b_delete1")
BDelete1 == BDeleteEndpoint("b_delete1", "bert-ep-1", "b_deploy2")
BDeploy2 == BDeploy("b_deploy2", "bert-ep-2", "b_deploy2_wait")
BDeployWait2 == BDeployWait("b_deploy2_wait", "bert-ep-2", "b_predict2")
BPredict2 == BPredict("b_predict2", "bert-ep-2", "b_predict3")
BPredict3 == BPredict("b_predict3", "bert-ep-2", "b_delete2")
BDelete2 == BDeleteEndpoint("b_delete2", "bert-ep-2", "done")

BertNext ==
    \/ BSetup \/ BUpload \/ BFit \/ BFitWait \/ BDeploy1 \/ BDeployWait1 \/ BPredict1
    \/ BDelete1 \/ BDeploy2 \/ BDeployWait2 \/ BPredict2 \/ BPredict3 \/ BDelete2

\* ------------------------------------------------- the data split cells
\* An IEEE-754 double in [0.5, 1) is m * 2^-53 with a 53-bit integer m; m is
\* written in digits of base 2^15, least significant first.
Base == 32768
DigitBits == 15
MantissaBits == 53
\* 0.7 = 6305039478318694 * 2^-53 and 0.9 = 8106479329266893 * 2^-53
Double07 == <<26214, 19660, 6553, 179>>
Double09 == <<19661, 6553, 13107, 230>>

\* the digits of d * n + carry, for 0 <= n < Base
RECURSIVE MulSmall(_, _, _)
MulSmall(d, n, carry) ==
    IF d = <<>> THEN <<carry>>
    ELSE <<(Head(d) * n + carry) % Base>>
         \o MulSmall(Tail(d), n, (Head(d) * n + carry) \div Base)

\* the bits of a number given by its digits, least significant first
RECURSIVE BitsOf(_)
BitsOf(d) ==
    IF d = <<>> THEN <<>>
    ELSE [k \in 1..DigitBits |-> (Head(d) \div 2^(k - 1)) % 2] \o BitsOf(Tail(d))

\* position of the highest 1 bit, 0 for the number 0
BitLength(b) ==
    LET ones == {k \in 1..Len(b) : b[k] = 1}
    IN  IF ones = {} THEN 0 ELSE CHOOSE k \in ones : \A j \in ones : j <= k

\* the number whose bits are b[lo], ..., b[hi]
RECURSIVE ValueOf(_, _, _)
ValueOf(b, lo, hi) == IF lo > hi THEN 0 ELSE b[lo] + 2 * ValueOf(b, lo + 1, hi)

\* int(x * n) for the double x = m * 2^-53 and an integer n: the exact
\* product m * n is rounded to 53 significant bits, ties to even, and the
\* result is truncated to an integer
IntOfProduct(m, n) ==
    LET b == BitsOf(MulSmall(m, n, 0))
        L == BitLength(b)
        s == L - MantissaBits
    IN  IF s <= 0 THEN 0
        ELSE LET roundUp == /\ b[s] = 1
                            /\ (\E j \in 1..(s - 1) : b[j] = 1) \/ b[s + 1] = 1
                 carries == \A j \in (s + 1)..MantissaBits : b[j] = 1
             IN  ValueOf(b, MantissaBits + 1, L) + (IF roundUp /\ carries THEN 1 ELSE 0)

\* Python's seq[lo:hi] for 0 <= lo
PySlice(seq, lo, hi) == SubSeq(seq, lo + 1, IF hi < Len(seq) THEN hi ELSE Len(seq))

\* np.split(ary, [a, b]): ary[:a], ary[a:b], ary[b:]
np_split(ary, a, b) == <<PySlice(ary, 0, a), PySlice(ary, a, b), PySlice(ary, b, Len(ary))>>

\* df.sample(frac=1, random_state=1729): the rows in another order; of the
\* orders a seed can give, the same, the reverse and the rotated one
Shuffles(df) ==
    LET n == Len(df)
    IN  {df, [k \in 1..n |-> df[n + 1 - k]], [k \in 1..n |-> df[(k % n) + 1]]}

\* the frames the split cells may find: df_model_data with rows 1..n, and
\* churn as the index label of each of its rows, with its columns
Frames == {[k \in 1..n |-> k] : n \in 0..MaxRows}
ChurnFrames == UNION {[1..n -> 1..n] : n \in 0..MaxChurnRows}
ChurnColumns == {"State", "Day Mins", "Churn?"}

SplitCell(n) == IF n = "xgb" THEN "x_split" ELSE "a_split"

\* the kernel is about to run the split cell on some data frame
DataInit ==
    /\ nb \in {"xgb", "autopilot"}
    /\ pc = SplitCell(nb)
    /\ FreshKernel
    /\ IF nb = "xgb"
       THEN /\ xgbData \in {[NoSplit EXCEPT !.df_model_data = f] : f \in Frames}
            /\ churnData = NoChurn
       ELSE /\ xgbData = NoSplit
            /\ churnData \in {[NoChurn EXCEPT !.churn = f, !.columns = ChurnColumns] :
                                 f \in ChurnFrames}

notebookVars == <<nb, err, job, ep, s3, sm, created, steps, textractVars, job_run_status,
                  hpo_state, histVars>>

\* train_data, validation_data, test_data = np.split(
\*     df_model_data.sample(frac=1, random_state=1729),
\*     [int(0.7 * len(df_model_data)), int(0.9*len(df_model_data))])
XSplit ==
    /\ At("xgb", "x_split")
    /\ \E shuffled \in Shuffles(xgbData.df_model_data) :
          LET n == Len(xgbData.df_model_data)
              parts == np_split(shuffled, IntOfProduct(Double07, n), IntOfProduct(Double09, n))
          IN  xgbData' = [xgbData EXCEPT !.shuffled = shuffled,
                                         !.train_data = parts[1],
                                         !.validation_data = parts[2],
                                         !.test_data = parts[3]]
    /\ Goto("x_split_done")
    /\ UNCHANGED <<notebookVars, churnData>>

\* the number of rows of df.sample(frac=0.8): round(0.8 * len(df)), the
\* integer nearest to 0.8 * len(df) (which is never half-way between two)
SampleSize(n) == (8 * n + 5) \div 10

\* df.sample(frac=0.8, random_state=200): rows drawn without replacement
Samples(n) == {rows \in SUBSET (1..n) : Cardinality(rows) = SampleSize(n)}

\* df.drop(index): the rows of df whose index label is none of index
DropLabels(df, index) == {r \in DOMAIN df : df[r] \notin index}

\* (mutant) the test rows are a sample of their own
ASplit_independentSample ==
    /\ At("autopilot", "a_split")
    /\ \E rows \in Samples(Len(churnData.churn)) :
       \E others \in SUBSET (1..Len(churnData.churn)) :
          /\ Cardinality(others) = Len(churnData.churn) - SampleSize(Len(churnData.churn))
          /\ churnData' = [churnData EXCEPT
                 !.train_data = rows,
                 !.test_data = others,
                 !.test_data_no_target = [rows |-> others,
                                          columns |-> churnData.columns \ {"Churn?"}]]
    /\ Goto("a_split_done")
    /\ UNCHANGED <<notebookVars, xgbData>>

\* train_data = churn.sample(frac=0.8,random_state=200)
\* test_data = churn.drop(train_data.index)
\* test_data_no_target = test_data.drop(columns=['Churn?'])
ASplit ==
    /\ At("autopilot", "a_split")
    /\ \E rows \in Samples(Len(churnData.churn)) :
          LET index == {churnData.churn[r] : r \in rows}
              rest == DropLabels(churnData.churn, index)
          IN  churnData' = [churnData EXCEPT
                 !.train_data = rows,
                 !.test_data = rest,
                 !.test_data_no_target = [rows |-> rest,
                                          columns |-> churnData.columns \ {"Churn?"}]]
    /\ Goto("a_split_done")
    /\ UNCHANGED <<notebookVars, xgbData>>

DataNext == XSplit \/ ASplit

\* the split cells applied to the data frames of DataInit
DataSpec == DataInit /\ [][DataNext]_vars

NotebookNext == TextractNext \/ AutopilotNext \/ XgbNext \/ BertNext

Next == NotebookNext \/ JobProgress \/ EndpointProgress

Spec == Init /\ [][Next]_vars

\* The kernel runs the notebook's code as long as there is a statement it can
\* execute (blocking calls return once the service lets them); nothing is
\* assumed of the services.
FairSpec == Spec /\ WF_vars(NotebookNext)

\* ================================================================ claims
Range(f) == {f[x] : x \in DOMAIN f}

\* the statements that follow each polling loop
TextractDownstream == {"t_fetch_init", "t_fetch_get0", "t_fetch_test", "t_fetch_sleep",
                       "t_fetch_get"}

\* C1: when a polling loop has ended and the downstream step (Textract result
\* fetch, Autopilot BestCandidate lookup, HPO tuner.deploy) is about to run,
\* the last status the loop observed is a terminal one, neither in progress
\* nor stopping.
C1_DownstreamOnlyAfterTerminal ==
    /\ (nb = "textract" /\ pc \in TextractDownstream) => status \in TextractTerminal
    /\ (nb = "autopilot" /\ pc = "a_best") => job_run_status \in SageMakerTerminal
    /\ (nb = "xgb" /\ pc = "x_hpo_deploy") => hpo_state \in SageMakerTerminal

\* C2: whenever the HPO polling loop has ended and the tuner.deploy cell runs,
\* the last status describe_hyper_parameter_tuning_job returned is Completed.
C2_DeployOnlyWhenCompleted ==
    (nb = "xgb" /\ pc = "x_hpo_deploy") => hpo_state = "Completed"

\* C3: whenever the Textract monitor loop has ended and the result-extraction
\* cell fetches pages, the last JobStatus observed is SUCCEEDED.
C3_FetchOnlyWhenSucceeded ==
    (nb = "textract" /\ pc \in TextractDownstream) => status = "SUCCEEDED"

\* ------------------------------------------------------------------- C4
\* position of a step kind in Upload, Submit, Poll, Fetch, Transform,
\* Consume, Teardown
Rank(kind) ==
    CASE kind = "Upload" -> 1
      [] kind = "Submit" -> 2
      [] kind = "Poll" -> 3
      [] kind = "Fetch" -> 4
      [] kind = "Transform" -> 5
      [] kind = "Consume" -> 6
      [] kind = "Teardown" -> 7

\* no step of a later kind precedes a step of an earlier kind, among the
\* steps that serve one of the jobs js (uploads shared by jobs are "data")
InPatternOrder(js) ==
    \A a \in 1..Len(steps) : \A b \in a..Len(steps) :
        (steps[a][2] \in js /\ steps[b][2] \in js)
            => Rank(steps[a][1]) <= Rank(steps[b][1])

PatternNotebooks == {"textract", "autopilot", "xgb"}

Exists(r) ==
    CASE r[1] = "s3" -> r[2] \in s3
      [] r[1] = "endpoint" -> ep[r[2]] # "absent"
      [] OTHER -> r \in sm

\* C5 as stated: after the last cell of a notebook has run, every remote
\* resource the notebook created (S3 objects, models, endpoint
\* configurations, endpoints) has been deleted.
C5_EverythingDeleted ==
    pc = "done" => \A r \in created : ~Exists(r)

\* C5 amended: after the last cell of the Autopilot or the BERT notebook has
\* run, every endpoint the notebook deployed has been deleted, and in the
\* Autopilot notebook its endpoint configuration and model too; these
\* notebooks keep the S3 objects they uploaded, and the XGBoost/HPO notebook,
\* whose delete_endpoint lines are comments, leaves both endpoints in service.
C5_EndpointsDeleted ==
    /\ (pc = "done" /\ nb \in {"autopilot", "bert"})
          => \A r \in created : r[1] # "s3" => ~Exists(r)
    /\ (pc = "done" /\ nb \in {"autopilot", "bert", "xgb"})
          => \A r \in created : r[1] = "s3" => Exists(r)
    /\ (pc = "done" /\ nb = "xgb")
          => ep["xgb-ep"] = "InService" /\ ep["hpo-ep"] = "InService"

C5_Witness ==
    /\ pc = "done"
    /\ nb = "autopilot"
    /\ {<<"endpoint", "automl-ep">>, <<"epc", "automl-epc">>, <<"model", "automl-model">>}
          \subseteq created

\* ------------------------------------------------------------------- C6
\* C6: the key the Textract clean-up cell passes to Object(...).delete() is
\* bound and is S3_path, the key sample_report.pdf was uploaded under.
C6_CleanupDeletesUploadedObject ==
    (nb = "textract" /\ pc = "t_cleanup") => textractObjectName = S3_path

\* ------------------------------------------------------------------- C7
\* C7: every text passed to detect_entities_v2 (the chunk the loop body is
\* about to send) is at most 20,000 bytes long in UTF-8.
C7_ChunkWithinByteLimit ==
    (At("textract", "t_cm_range") /\ i < len(pageText))
        => UTF8Len(ChunkOf(pageText, i)) <= 20000

\* ------------------------------------------------------------------- C8
\* C8: every response appended to comprehendResponse contributes to the
\* table df_cm the review cell builds.
C8_EveryResponseInTable ==
    (nb = "textract" /\ (pc \in {"t_cleanup", "done"} \/ err = "NameError")) =>
        \A k \in 1..Len(comprehendResponse) : extractMC_v2(comprehendResponse[k]) \subseteq df_cm

\* ------------------------------------------------------------------- C9
FetchDone == nb = "textract" /\ pc \in {"t_doc", "t_cm_init", "t_cm_for", "t_cm_range",
                                         "t_review", "t_cleanup", "done"}

\* C9: the first result request carries no NextToken, every later request
\* carries the NextToken of the response just before it, the loop stops at
\* the first response with no or an empty NextToken, and pages holds exactly
\* the responses received, in order, one entry each.
C9_PaginationFollowsTokens ==
    /\ requests # <<>> => requests[1] = NoneToken
    /\ Len(received) <= Len(requests) /\ Len(requests) <= Len(received) + 1
    /\ \A k \in 2..Len(requests) :
          /\ received[k-1].hasNextToken
          /\ received[k-1].NextToken # EmptyToken
          /\ requests[k] = received[k-1].NextToken
    /\ \A k \in 1..Len(received) : received[k].idx = ResultPage(requests[k])
    /\ pages = received
    /\ FetchDone =>
          /\ received # <<>>
          /\ Len(requests) = Len(received)
          /\ LET last == received[Len(received)]
             IN  ~last.hasNextToken \/ last.NextToken = EmptyToken

\* the loop has followed a token and then stopped at an empty NextToken
C9_Witness ==
    /\ FetchDone
    /\ Len(pages) >= 2
    /\ pages[Len(pages)].hasNextToken

\* ------------------------------------------------------------------ C10
PollLoop ==
    [textract |-> {"t_mon_sleep0", "t_mon_get0", "t_mon_test", "t_mon_sleep", "t_mon_get"},
     autopilot |-> {"a_describe0", "a_test", "a_describe", "a_sleep"},
     xgb |-> {"x_poll_init", "x_poll_test", "x_poll_body", "x_poll_describe"}]
\* the statement that follows each loop
LoopExit == [textract |-> "t_fetch_init", autopilot |-> "a_best", xgb |-> "x_hpo_deploy"]
PolledJob == [textract |-> "textract", autopilot |-> "automl", xgb |-> "tuning"]
InProgressStatus == [textract |-> "IN_PROGRESS", autopilot |-> "InProgress", xgb |-> "InProgress"]
TerminalStatuses == [textract |-> TextractTerminal, autopilot |-> SageMakerTerminal,
                     xgb |-> SageMakerTerminal]

InPollLoop(n) == nb = n /\ pc \in PollLoop[n]

\* the loop of notebook n goes on to the statement after it
LeavesLoop(n) == InPollLoop(n) /\ pc' = LoopExit[n]

PollInterval(n) ==
    CASE n = "textract" -> 5
      [] n = "autopilot" -> 30
      [] n = "xgb" -> 60

RequestAt(k) == log[k].kind = "request"

\* log[a] and log[b] are two consecutive status requests of the loop
Consecutive(a, b) ==
    /\ a < b
    /\ RequestAt(a)
    /\ RequestAt(b)
    /\ \A k \in (a + 1)..(b - 1) : ~RequestAt(k)

\* exactly one sleep, of the loop's interval, lies between log[a] and log[b]
OneSleepBetween(a, b) ==
    /\ b = a + 2
    /\ log[a + 1] = [kind |-> "sleep", secs |-> PollInterval(nb), status |-> ""]

\* C11 as stated: between any two consecutive status requests of a polling
\* loop exactly one sleep of the loop's interval occurs (5 s Textract, 30 s
\* Autopilot, 60 s HPO), whatever the iteration and the statuses seen.
C11_OneSleepBetweenRequests ==
    nb \in PatternNotebooks =>
        \A a \in 1..Len(log) : \A b \in 1..Len(log) :
            Consecutive(a, b) => OneSleepBetween(a, b)

\* C11 amended: every sleep of a polling loop has the loop's interval; in the
\* Textract and the HPO loop exactly one sleep lies between any two
\* consecutive status requests; in the Autopilot loop no sleep lies between
\* the first and the second request and exactly one between any two later
\* consecutive requests.
C11_FixedIntervalSleeps ==
    nb \in PatternNotebooks =>
        /\ \A k \in 1..Len(log) : log[k].kind = "sleep" => log[k].secs = PollInterval(nb)
        /\ \A a \in 1..Len(log) : \A b \in 1..Len(log) :
               Consecutive(a, b) =>
                   IF nb = "autopilot" /\ a = 1 THEN b = 2 ELSE OneSleepBetween(a, b)

\* the Autopilot loop has made three status requests, the first two back to
\* back and a sleep before the third
C11_Witness ==
    /\ nb = "autopilot"
    /\ Len(log) >= 4
    /\ RequestAt(1) /\ RequestAt(2) /\ RequestAt(4)
    /\ log[3].kind = "sleep"

\* ------------------------------------------------------------------ C12
\* C12: the kernel is single-threaded and synchronous: at most one SDK call
\* is outstanding at any time, and a step of the notebook is taken either
\* with no call outstanding or is the return of the outstanding call, so
\* every request follows the response to the one before.
C12_OneRequestAtATime ==
    [][/\ Cardinality(outstanding') <= 1
       /\ pc' # pc => (outstanding = {} \/ outstanding' = {})]_vars

\* the blocking estimator.deploy call is outstanding while the endpoint is
\* being created
C12_Witness ==
    /\ nb = "xgb"
    /\ pc = "x_deploy_wait"
    /\ outstanding = {"estimator.deploy"}
    /\ ep["xgb-ep"] = "Creating"

\* ------------------------------------------------------------------ C13
\* the status the loop of this notebook observed last
LastStatus ==
    CASE nb = "textract" -> status
      [] nb = "autopilot" -> job_run_status
      [] nb = "xgb" -> hpo_state
      [] OTHER -> Unbound

\* the loop has tested a status it polled and runs its body once more
Continues ==
    \/ At("textract", "t_mon_sleep")
    \/ At("autopilot", "a_describe")
    \/ At("xgb", "x_poll_body") /\ hpo_state # None

\* the kinds of the loop's events so far are those f gives for each position
KindsAre(f(_)) == \A k \in 1..Len(log) : log[k].kind = f(k)

RequestFirst(k) == IF k % 2 = 1 THEN "request" ELSE "sleep"
SleepFirst(k) == IF k % 2 = 1 THEN "sleep" ELSE "request"
TwoRequestsFirst(k) == IF k = 1 \/ k % 2 = 0 THEN "request" ELSE "sleep"

\* C13 as stated: with the status values renamed, the three polling loops
\* produce one and the same sequence of status requests and sleeps (a
\* request, then a sleep and a request for every further pass) and go on and
\* leave on the same observations (on exactly while the status is the
\* in-progress one).
C13_SamePollingPattern ==
    nb \in PatternNotebooks =>
        /\ KindsAre(RequestFirst)
        /\ Continues => LastStatus = InProgressStatus[nb]
        /\ pc = LoopExit[nb] => LastStatus # InProgressStatus[nb]

\* C13 amended: the three loops share the skeleton (request the status, test
\* it, sleep, request again) and differ in the rest.  Textract sleeps before
\* every request, the first included, and goes on exactly while the status
\* is IN_PROGRESS; Autopilot makes its first two requests back to back,
\* sleeps after every later request, and goes on exactly while the status is
\* none of Failed, Completed, Stopped (so also on Stopping); HPO sleeps
\* before every request but the first and goes on exactly while the status is
\* InProgress.
C13_PollingPatternPerLoop ==
    /\ nb = "textract" =>
          /\ KindsAre(SleepFirst)
          /\ Continues => status = "IN_PROGRESS"
          /\ pc = LoopExit[nb] => status # "IN_PROGRESS"
    /\ nb = "autopilot" =>
          /\ KindsAre(TwoRequestsFirst)
          /\ Continues => job_run_status \notin {"Failed", "Completed", "Stopped"}
          /\ pc = LoopExit[nb] => job_run_status \in {"Failed", "Completed", "Stopped"}
    /\ nb = "xgb" =>
          /\ KindsAre(RequestFirst)
          /\ Continues => hpo_state = "InProgress"
          /\ pc = LoopExit[nb] => hpo_state \notin {None, "InProgress"}

\* the Autopilot loop goes on after it was told that the job is stopping
C13_Witness ==
    /\ nb = "autopilot"
    /\ pc = "a_describe"
    /\ job_run_status = "Stopping"
    /\ Len(log) >= 4

\* ------------------------------------------------------------------ C14
\* the statuses the claim calls succeeded and failed
Succeeded == [textract |-> "SUCCEEDED", autopilot |-> "Completed", xgb |-> "Completed"]
Failed == [textract |-> "FAILED", autopilot |-> "Failed", xgb |-> "Failed"]

\* the statuses the loop's requests have returned so far
Observed == {log[k].status : k \in {x \in 1..Len(log) : RequestAt(x)}} \ {"ClientError"}

TestPc == [textract |-> "t_mon_test", autopilot |-> "a_test", xgb |-> "x_poll_test"]
BodyPc == [textract |-> "t_mon_sleep", autopilot |-> "a_describe", xgb |-> "x_poll_body"]

\* the variables of the notebooks' code other than the three status variables
\* (steps, requests, received and the histVars are records of the run, not
\* state of the code)
CodeVars == <<textractObjectName, pages, nextToken, docPages, pageNo, pageText, i,
              comprehendResponse, df_cm, xgbData, churnData>>

\* a step of the polling loop of this notebook
LoopStep == nb \in PatternNotebooks /\ pc \in PollLoop[nb] /\ pc' # pc

\* the loop assigns its own status variable and nothing else
NoOtherState ==
    LoopStep =>
        /\ UNCHANGED CodeVars
        /\ nb # "textract" => UNCHANGED status
        /\ nb # "autopilot" => UNCHANGED job_run_status
        /\ nb # "xgb" => UNCHANGED hpo_state

\* C14 as stated: every status a polling loop observes is one of in progress,
\* succeeded, failed; the loop goes on on in progress and stops on succeeded
\* and on failed; and it keeps no other state.
C14_ThreeStates ==
    [][/\ (nb \in PatternNotebooks =>
            /\ Observed \subseteq {InProgressStatus[nb], Succeeded[nb], Failed[nb]}
            /\ Continues => LastStatus = InProgressStatus[nb]
            /\ pc = LoopExit[nb] => LastStatus \in {Succeeded[nb], Failed[nb]})'
       /\ NoOtherState]_vars

\* the statuses on which each loop goes on, as its condition spells them out
GoesOn(n, st) ==
    CASE n = "textract" -> st = "IN_PROGRESS"
      [] n = "autopilot" -> st \notin {"Failed", "Completed", "Stopped"}
      [] n = "xgb" -> st \in {None, "InProgress"}

\* C14 amended: a polling loop keeps no state beyond the last status it
\* observed (None in the HPO loop before the first request) and tells two
\* classes of status apart, not three: whether it goes on or stops is decided
\* by the last status alone.  Textract goes on on IN_PROGRESS and stops on
\* SUCCEEDED, FAILED and PARTIAL_SUCCESS; Autopilot stops on Failed,
\* Completed and Stopped and goes on on InProgress and Stopping; HPO goes on
\* on None and InProgress and stops on Completed, Failed, Stopping and
\* Stopped.
C14_TwoClassesNoOtherState ==
    [][/\ (/\ nb = "textract" => Observed \subseteq {"IN_PROGRESS"} \cup TextractTerminal
           /\ nb \in {"autopilot", "xgb"} => Observed \subseteq SageMakerStatuses)'
       /\ (nb \in PatternNotebooks /\ pc = TestPc[nb] /\ pc' # pc) =>
             pc' = IF GoesOn(nb, LastStatus) THEN BodyPc[nb] ELSE LoopExit[nb]
       /\ NoOtherState]_vars

\* the Textract loop has stopped on a status that is neither succeeded nor
\* failed
C14_Witness ==
    /\ nb = "textract"
    /\ pc = "t_fetch_init"
    /\ status = "PARTIAL_SUCCESS"
    /\ "PARTIAL_SUCCESS" \in Observed

\* ------------------------------------------------------------------ C15
\* C15: an SDK error raised by a status request of a polling loop or by a
\* result request of the pagination loop is not handled: the request that
\* failed is the last one made (no retry), the run has stopped with that
\* error, and no statement runs from then on.
C15_ErrorsPropagate ==
    /\ [](/\ \A k \in 1..Len(log) :
                log[k].status = "ClientError" =>
                    k = Len(log) /\ pc = "aborted" /\ err = "ClientError"
          /\ Len(received) <= Len(requests)
          /\ Len(requests) <= Len(received) + 1
          /\ Len(requests) = Len(received) + 1 => pc = "aborted" /\ err = "ClientError")
    /\ [][/\ (err = "none" /\ err' # "none") => pc' = "aborted"
          /\ pc = "aborted" =>
                UNCHANGED <<pc, err, log, requests, received, steps, CodeVars, status,
                            job_run_status, hpo_state>>]_vars

\* the request for the second page of results raised and the run stopped
C15_Witness ==
    /\ nb = "textract"
    /\ pc = "aborted"
    /\ err = "ClientError"
    /\ Len(requests) = 2
    /\ Len(received) = 1

\* ------------------------------------------------------------------ C16
\* the resource a create_* or delete_* call is about
ResourceOf(c) ==
    CASE c[1] \in {"create_model", "delete_model"} -> <<"model", c[2]>>
      [] c[1] \in {"create_endpoint_config", "delete_endpoint_config"} -> <<"epc", c[2]>>
      [] c[1] \in {"create_endpoint", "delete_endpoint"} -> <<"endpoint", c[2]>>

IsCreate(c) == c[1] \in {"create_model", "create_endpoint_config", "create_endpoint"}
IsDelete(c) == c[1] \in {"delete_model", "delete_endpoint_config", "delete_endpoint"}

\* the resources created, and those deleted, in the order of the calls
CreatedInOrder == [k \in 1..Len(SelectSeq(calls, IsCreate)) |->
                      ResourceOf(SelectSeq(calls, IsCreate)[k])]
DeletedInOrder == [k \in 1..Len(SelectSeq(calls, IsDelete)) |->
                      ResourceOf(SelectSeq(calls, IsDelete)[k])]

\* C16: in the Autopilot notebook the deletions made so far are, one for
\* one and under the same names, the resources the Host cell created, taken
\* in the reverse of their creation order; when the final cell has run, the
\* endpoint, the endpoint configuration and the model (created in the order
\* model, configuration, endpoint) have each been deleted exactly once and
\* none of them exists.
C16_DeletesWhatHostCreated ==
    nb = "autopilot" =>
        /\ Len(DeletedInOrder) <= Len(CreatedInOrder)
        /\ \A k \in 1..Len(DeletedInOrder) :
               DeletedInOrder[k] = CreatedInOrder[Len(CreatedInOrder) + 1 - k]
        /\ pc = "done" =>
               /\ CreatedInOrder = <<<<"model", model_name>>, <<"epc", epc_name>>,
                                     <<"endpoint", ep_name>>>>
               /\ Len(DeletedInOrder) = 3
               /\ ep[ep_name] = "absent"
               /\ sm = {}

\* the final cell of the Autopilot notebook has made its three delete calls
C16_Witness ==
    /\ nb = "autopilot"
    /\ pc = "done"
    /\ Len(calls) = 6
    /\ calls[4][1] = "delete_endpoint"

\* ------------------------------------------------------------------ C17
\* the endpoints that exist, in whatever state
Existing == {e \in Endpoints : ep[e] # "absent"}

\* C17: in the BERT notebook every predict call is made while the endpoint
\* it targets is deployed and not deleted, at most one endpoint exists at any
\* time (the first is deleted before the second is deployed), and after the
\* last cell no endpoint exists.
C17_BertEndpointLifecycle ==
    nb = "bert" =>
        /\ pc = "b_predict1" => ep["bert-ep-1"] = "InService"
        /\ pc \in {"b_predict2", "b_predict3"} => ep["bert-ep-2"] = "InService"
        /\ Cardinality(Existing) <= 1
        /\ ep["bert-ep-2"] # "absent" => <<"Teardown", "bert-training">> \in Range(steps)
        /\ pc = "done" => Existing = {}

\* the second endpoint is in service, the first one deleted, and the second
\* predict cell is next
C17_Witness ==
    /\ nb = "bert"
    /\ pc = "b_predict2"
    /\ ep["bert-ep-1"] = "absent"
    /\ ep["bert-ep-2"] = "InService"

\* ------------------------------------------------------------------ C18
\* C18: a prediction request is sent only to an endpoint whose deployment
\* has finished: when predictor.predict is next in the Autopilot notebook
\* (after the endpoint_in_service waiter) and when predictor.predict or
\* hpo_predictor.predict is next in the XGBoost notebook (after the blocking
\* deploy), the endpoint is in service and no call is outstanding.
C18_PredictAfterDeployment ==
    /\ At("autopilot", "a_predict") => ep[ep_name] = "InService"
    /\ At("xgb", "x_predict") => ep["xgb-ep"] = "InService" /\ outstanding = {}
    /\ At("xgb", "x_hpo_predict") => ep["hpo-ep"] = "InService" /\ outstanding = {}

\* hpo_predictor.predict is next and both XGBoost endpoints are in service
C18_Witness ==
    /\ nb = "xgb"
    /\ pc = "x_hpo_predict"
    /\ ep["xgb-ep"] = "InService"
    /\ ep["hpo-ep"] = "InService"

\* ------------------------------------------------------------------ C19
\* C19: the XGBoost notebook's split of a data set of n rows gives three
\* parts that are pairwise disjoint, together the whole data set, and of
\* floor(0.7n), floor(0.9n) - floor(0.7n) and n - floor(0.9n) rows
\* (Training 70%, Validation 20%, Test 10%).
C19_SplitSizes ==
    At("xgb", "x_split_done") =>
        LET n == Len(xgbData.df_model_data)
            train == Range(xgbData.train_data)
            validation == Range(xgbData.validation_data)
            test == Range(xgbData.test_data)
        IN  /\ train \cap validation = {}
            /\ train \cap test = {}
            /\ validation \cap test = {}
            /\ train \cup validation \cup test = Range(xgbData.df_model_data)
            /\ Len(xgbData.train_data) = (7 * n) \div 10
            /\ Len(xgbData.validation_data) = (9 * n) \div 10 - (7 * n) \div 10
            /\ Len(xgbData.test_data) = n - (9 * n) \div 10

\* ------------------------------------------------------------------ C20
\* every row of churn has an index label of its own
UniqueIndex(df) == \A a \in DOMAIN df : \A b \in DOMAIN df : df[a] = df[b] => a = b

\* C20: when the Autopilot notebook has split a data set whose row indices
\* are unique, no row is in both train_data and test_data, every row is in
\* one of them, and test_data_no_target has the rows of test_data and all
\* columns but 'Churn?'.
C20_TrainTestPartition ==
    (At("autopilot", "a_split_done") /\ UniqueIndex(churnData.churn)) =>
        /\ churnData.train_data \cap churnData.test_data = {}
        /\ churnData.train_data \cup churnData.test_data = DOMAIN churnData.churn
        /\ churnData.test_data_no_target.rows = churnData.test_data
        /\ churnData.test_data_no_target.columns = churnData.columns \ {"Churn?"}

\* a data set of three rows with unique indices has been split in two
\* non-empty parts
C20_Witness ==
    /\ At("autopilot", "a_split_done")
    /\ Len(churnData.churn) = 3
    /\ UniqueIndex(churnData.churn)
    /\ churnData.train_data # {}
    /\ churnData.test_data # {}

\* ------------------------------------------------------------------ C21
\* the number of recorded events of the given kind
CountKind(kind) == Cardinality({k \in 1..Len(log) : log[k].kind = kind})

\* every event of the loop so far is recorded
LogComplete == Len(log) < MaxLog

\* C21: the HPO loop polls once a minute after an immediate first poll.  Its
\* first event is a status request, requests and sleeps of 60 s alternate
\* from there, a sleep is taken only after a status of InProgress (never
\* after the status that ends the loop), and when the loop has ended it has
\* made at least one request, its last event is a request and it has slept
\* once less than it has requested.
C21_HpoPollsOnceAMinute ==
    [][/\ (nb = "xgb" =>
            /\ KindsAre(RequestFirst)
            /\ \A k \in 1..Len(log) : log[k].kind = "sleep" => log[k].secs = 60
            /\ pc = "x_hpo_deploy" =>
                  /\ Len(log) >= 1
                  /\ LogComplete =>
                        /\ RequestAt(Len(log))
                        /\ CountKind("sleep") = CountKind("request") - 1)'
       /\ (nb = "xgb" /\ log' # log /\ log'[Len(log')].kind = "sleep")
             => /\ hpo_state = "InProgress"
                /\ pc' = "x_poll_describe"]_vars

\* the HPO loop has ended after two status requests with one sleep between
C21_Witness ==
    /\ nb = "xgb"
    /\ pc = "x_hpo_deploy"
    /\ Len(log) = 3
    /\ log[2] = [kind |-> "sleep", secs |-> 60, status |-> ""]
    /\ log[3].status = "Completed"

====
